---------------------------- MODULE Spec2Model ----------------------------
(***************************************************************************)
(* Model of multidown (src/main.go): a segmented, resumable HTTP           *)
(* downloader.  One supervisor (download), numThreads workers              *)
(* (download_segments) and one progress consumer (print_progress) share    *)
(* two unbuffered channels, the output file and the progress file.         *)
(*                                                                         *)
(* Byte counts are scaled down: the segment size hint, the read buffer    *)
(* and the segment cap are small numbers standing for 1000000, 8192 and    *)
(* 50000.  The magic bytes, the status byte 0x59, the bitmap offset 256    *)
(* and the retry limit 3 are the program's own.                            *)
(***************************************************************************)
EXTENDS Integers, Sequences, FiniteSets, TLC

\* ------------------------------------------------------------------ bounds
\* the longest resource, in bytes
MaxLength == 3
\* the default 4 of flag -n (main.go:326), scaled; a run has 1 .. MaxThreads workers
MaxThreads == 2
\* the longest bitmap region a progress file starts with
MaxBitmap == 2
\* int64(1000000) of main.go:277, scaled
DefaultSegmentSize == 2
\* make([]byte, 8192) of main.go:42, scaled
BufSize == 2
\* maxSegments = 50000 of main.go:31, scaled
maxSegments == 3

\* ------------------------------------------------------- program constants
finishedSegment == 89
baseOffset == 256
maxErrors == 3
StatusOK == 200
StatusPartialContent == 206
StatusNotFound == 404

\* An output-file cell holds the segmentNum of the Download whose worker wrote
\* it last, or one of: a zero byte of a hole, a byte on disk before the run
Hole == -1
Old == -2

VARIABLES
    numThreads,     \* flag -n
    file,           \* the output file: [exists, data]
    progressFile,   \* the progress file: [exists, magic, decodes, Length, SegmentSize, bitmap]
    exit,           \* "running", "exit0" (main returned), "exit1" (os.Exit(1)), "panic"
    pc,             \* where download() is
    length,         \* download: length
    info,           \* download: info (ProgressInfo)
    truncate,       \* download: truncate
    seg,            \* download: seg, the loop index of the feeding loop
    poisons,        \* download: i of the poison loop
    thread,         \* the locals of each download_segments goroutine
    counts,         \* print_progress: counts
    ptotal,         \* print_progress: total
    recovered,      \* history: info.segments as setupProgressFile returned it
    sent,           \* history: the Download values sent on instructions, in order
    marked,         \* history: the segments whose status byte a worker has written
    attempts,       \* history: client.Do calls of each worker for the item it holds,
                    \* counted until one is accepted: [n, accepted]
    idle            \* history, kept by RetrySpec only: client.Do calls of each worker
                    \* since the item it holds was received or last had a byte read

vars == <<numThreads, file, progressFile, exit, pc, length, info, truncate,
          seg, poisons, thread, counts, ptotal, recovered, sent, attempts,
          marked, idle>>

Threads == 0 .. MaxThreads - 1
Started == 0 .. numThreads - 1

Min(a, b) == IF a < b THEN a ELSE b
Max(a, b) == IF a > b THEN a ELSE b

\* ------------------------------------------------------------- arithmetic
\* Go's integer division truncates toward zero; b # 0
GoDiv(a, b) ==
    LET q == (IF a < 0 THEN -a ELSE a) \div (IF b < 0 THEN -b ELSE b)
    IN  IF (a < 0) = (b < 0) THEN q ELSE -q

findSegmentCountOffByOne(len, segmentSize) == GoDiv(len, segmentSize)

findSegmentCount(len, segmentSize) == GoDiv(len + segmentSize - 1, segmentSize)

\* len of a slice, here a function on 0 .. n-1
lenOf(arr) == Cardinality(DOMAIN arr)

countTrue(arr) == Cardinality({i \in DOMAIN arr : arr[i]})

\* ------------------------------------------------------------------ files
NoFile == [exists |-> FALSE, data |-> <<>>]

\* os.File.WriteAt of the bytes bs at offset off, on a successful write.
\* Both files can be open with O_APPEND (main.go:180, main.go:285): WriteAt then
\* returns an error and writes nothing (Go 1.11 and later), and it can fail as
\* any write can; the callers do not look at the error (main.go:85, main.go:94),
\* so each call either writes at its offset or writes nothing.  The pwrite of
\* older Go runtimes on Linux, which appends instead, is not modelled.
WriteAt(data, bs, off) ==
    [i \in 1 .. Max(Len(data), off + Len(bs)) |->
        IF i > off /\ i <= off + Len(bs) THEN bs[i - off]
        ELSE IF i <= Len(data) THEN data[i]
        ELSE Hole]

NoProgressFile ==
    [exists |-> FALSE, magic |-> FALSE, decodes |-> FALSE,
     Length |-> 0, SegmentSize |-> 0, bitmap |-> <<>>]

\* beginProgressFile: "MULD", then the gob of the header; nothing at baseOffset yet
beginProgressFile(len, segmentSize) ==
    [exists |-> TRUE, magic |-> TRUE, decodes |-> TRUE,
     Length |-> len, SegmentSize |-> segmentSize, bitmap |-> <<>>]

WriteStatusOffByOne(bitmap, b, off) ==
    [k \in 1 .. Max(Len(bitmap), off - baseOffset) |->
        IF k = off - baseOffset THEN b
        ELSE IF k <= Len(bitmap) THEN bitmap[k]
        ELSE 0]

\* the bitmap region of the progress file after a byte b is written at offset off
\* (bitmap[k] is the byte at offset baseOffset + k - 1; zeros fill a hole)
WriteStatus(bitmap, b, off) ==
    [k \in 1 .. Max(Len(bitmap), off - baseOffset + 1) |->
        IF k = off - baseOffset + 1 THEN b
        ELSE IF k <= Len(bitmap) THEN bitmap[k]
        ELSE 0]

StatusOffsetNoBase(segmentNum) == segmentNum

\* the offset of a segment's status byte (main.go:94)
StatusOffset(segmentNum) == baseOffset + segmentNum

readSegmentsOnce(bitmap, segments, i, segmentCount) ==
    [x \in DOMAIN segments |->
        x < Min(BufSize, Len(bitmap)) /\ bitmap[x + 1] = finishedSegment]

\* the read loop of readProgressInfo (main.go:239-251): from offset baseOffset,
\* in reads of up to BufSize bytes, until segmentCount bytes or end of file
RECURSIVE readSegments(_, _, _, _)
readSegments(bitmap, segments, i, segmentCount) ==
    IF i >= segmentCount THEN segments
    ELSE LET numRead == Min(BufSize, Len(bitmap) - i)
         IN  IF numRead <= 0 THEN segments
             ELSE readSegments(bitmap,
                    [x \in DOMAIN segments |->
                        IF x >= i /\ x < i + numRead
                        THEN bitmap[x + 1] = finishedSegment
                        ELSE segments[x]],
                    i + numRead, segmentCount)

NoInfo == [Length |-> 0, SegmentSize |-> 0, segments |-> <<>>]

\* readProgressInfo: err is "" for nil; panic names a run-time panic
readProgressInfo(f) ==
    IF ~f.exists THEN [err |-> "open", panic |-> "", info |-> NoInfo]
    ELSE IF ~f.magic THEN [err |-> "invalid magic number", panic |-> "", info |-> NoInfo]
    ELSE IF ~f.decodes THEN [err |-> "decode", panic |-> "", info |-> NoInfo]
    ELSE LET hdr == [Length |-> f.Length, SegmentSize |-> f.SegmentSize, segments |-> <<>>]
         IN  IF f.SegmentSize = 0
             THEN [err |-> "", panic |-> "integer divide by zero", info |-> hdr]
             ELSE LET segmentCount == findSegmentCount(f.Length, f.SegmentSize)
                  IN  IF segmentCount > maxSegments
                      THEN [err |-> "too many segments", panic |-> "", info |-> hdr]
                      ELSE IF segmentCount < 0
                      THEN [err |-> "", panic |-> "makeslice: len out of range", info |-> hdr]
                      ELSE [err |-> "", panic |-> "",
                            info |-> [hdr EXCEPT !.segments =
                                readSegments(f.bitmap,
                                             [x \in 0 .. segmentCount - 1 |-> FALSE],
                                             0, segmentCount)]]


\* ------------------------------------------------------------ initial state
StatusBytes == {0, finishedSegment}
StoredSizes == {-1, 0, 1, DefaultSegmentSize}
Lengths == 0 .. MaxLength
Bitmaps == UNION {[1 .. n -> StatusBytes] : n \in 0 .. MaxBitmap}

\* what may lie at <output>.multidownload when the program starts
ProgressFiles ==
    {NoProgressFile}
    \cup {[NoProgressFile EXCEPT !.exists = TRUE]}
    \cup {[NoProgressFile EXCEPT !.exists = TRUE, !.magic = TRUE]}
    \cup {[exists |-> TRUE, magic |-> TRUE, decodes |-> TRUE,
           Length |-> l, SegmentSize |-> s, bitmap |-> b] :
              l \in Lengths, s \in StoredSizes, b \in Bitmaps}

\* what may lie at <output> when the program starts
OutputFiles ==
    {NoFile} \cup {[exists |-> TRUE, data |-> [i \in 1 .. n |-> Old]] : n \in {0, MaxLength}}

NoAttempts == [n |-> 0, accepted |-> FALSE]
NoDownload == [position |-> 0, size |-> 0, segmentNum |-> 0]
NoResponse == [err |-> FALSE, StatusCode |-> 0]

\* a goroutine not yet started; the locals as download_segments sets them (main.go:41-46)
NewThread ==
    [pc |-> "new", finished |-> TRUE, down |-> NoDownload, errorCount |-> 0,
     read |-> 0, total |-> 0, resp |-> NoResponse]

Init ==
    /\ numThreads \in 1 .. MaxThreads
    /\ file \in OutputFiles
    /\ progressFile \in ProgressFiles
    /\ exit = "running"
    /\ pc = "findFileLength"
    /\ length = 0
    /\ info = NoInfo
    /\ truncate = FALSE
    /\ seg = 0
    /\ poisons = 0
    /\ thread = [w \in Threads |-> NewThread]
    /\ counts = [w \in Threads |-> 0]
    /\ ptotal = 0
    /\ recovered = <<>>
    /\ sent = <<>>
    /\ marked = {}
    /\ attempts = [w \in Threads |-> NoAttempts]
    /\ idle = [w \in Threads |-> 0]

Running == exit = "running"

\* -------------------------------------------------------------- supervisor
HeadResponses ==
    [err : BOOLEAN, StatusCode : {StatusOK, StatusNotFound}, ContentLength : {-1} \cup Lengths]

\* findFileLength (main.go:129-138); with err # nil resp is nil and the
\* Fprintf of resp.Status panics before os.Exit(1) is reached
findFileLength ==
    /\ Running /\ pc = "findFileLength"
    /\ \E resp \in HeadResponses :
          IF resp.err
          THEN /\ exit' = "panic"
               /\ UNCHANGED <<pc, length>>
          ELSE IF resp.StatusCode # StatusOK \/ resp.ContentLength = -1
          THEN /\ exit' = "exit1"
               /\ UNCHANGED <<pc, length>>
          ELSE /\ length' = resp.ContentLength
               /\ pc' = "stat"
               /\ UNCHANGED exit
    /\ UNCHANGED <<numThreads, file, progressFile, info, truncate, seg, poisons,
                   thread, counts, ptotal, recovered, sent, attempts,
                   marked, idle>>

AlreadyDownloadedNoProgressCheck == file.exists /\ Len(file.data) = length

\* the test of main.go:269-270
AlreadyDownloaded == file.exists /\ Len(file.data) = length /\ ~progressFile.exists

\* main.go:269-275: the short-circuit; the return runs the deferred os.Remove
statFiles ==
    /\ Running /\ pc = "stat"
    /\ IF AlreadyDownloaded
       THEN /\ pc' = "returned"
            /\ exit' = "exit0"
            /\ progressFile' = NoProgressFile
       ELSE /\ pc' = "setupProgressFile"
            /\ UNCHANGED <<exit, progressFile>>
    /\ UNCHANGED <<numThreads, file, length, info, truncate, seg, poisons,
                   thread, counts, ptotal, recovered, sent, attempts,
                   marked, idle>>

\* clean of setupProgressFile (main.go:157-163), r the result of readProgressInfo
Clean(forceClean, len, r) ==
    \/ forceClean
    \/ r.err # ""
    \/ len # r.info.Length
    \/ findSegmentCount(len, r.info.SegmentSize) # lenOf(r.info.segments)

\* setupProgressFile (main.go:154-188) as download calls it (main.go:277-282)
setupProgressFile ==
    /\ Running /\ pc = "setupProgressFile"
    /\ LET forceClean == ~file.exists
           r == IF forceClean THEN [err |-> "", panic |-> "", info |-> NoInfo]
                ELSE readProgressInfo(progressFile)
       IN  IF r.panic # ""
           THEN \* the panic unwinds download: its deferred os.Remove runs
                /\ exit' = "panic"
                /\ progressFile' = NoProgressFile
                /\ UNCHANGED <<pc, info, truncate, recovered>>
           ELSE IF Clean(forceClean, length, r)
           THEN \E ioerr \in {"", "create", "write"} :
                  \* os.Create fails: nothing changes; a write fails: a file
                  \* without a whole header is left
                  IF ioerr # ""
                  THEN /\ exit' = "exit1"
                       /\ progressFile' =
                            IF ioerr = "create" THEN progressFile
                            ELSE [NoProgressFile EXCEPT !.exists = TRUE]
                       /\ UNCHANGED <<pc, info, truncate, recovered>>
                  ELSE /\ progressFile' = beginProgressFile(length, DefaultSegmentSize)
                       /\ info' = [Length |-> length, SegmentSize |-> DefaultSegmentSize,
                                   segments |->
                                     [x \in 0 .. findSegmentCount(length, DefaultSegmentSize) - 1
                                        |-> FALSE]]
                       /\ truncate' = TRUE
                       /\ recovered' = info'.segments
                       /\ pc' = "openFile"
                       /\ UNCHANGED exit
           ELSE \E ioerr \in BOOLEAN :
                  IF ioerr
                  THEN /\ exit' = "exit1"
                       /\ UNCHANGED <<pc, progressFile, info, truncate, recovered>>
                  ELSE /\ info' = r.info
                       /\ truncate' = FALSE
                       /\ recovered' = r.info.segments
                       /\ pc' = "openFile"
                       /\ UNCHANGED <<exit, progressFile>>
    /\ UNCHANGED <<numThreads, file, length, seg, poisons,
                   thread, counts, ptotal, sent, attempts,
                   marked, idle>>

\* os.OpenFile(filename, O_RDWR|O_APPEND|O_CREATE [|O_TRUNC]) (main.go:285-289)
Opened(f, trunc) ==
    IF trunc \/ ~f.exists THEN [exists |-> TRUE, data |-> <<>>] ELSE f

\* main.go:285-294
openFile ==
    /\ Running /\ pc = "openFile"
    /\ \E ioerr \in BOOLEAN :
          IF ioerr
          THEN /\ exit' = "exit1"
               /\ UNCHANGED <<pc, file>>
          ELSE /\ file' = Opened(file, truncate)
               /\ pc' = "go"
               /\ UNCHANGED exit
    /\ UNCHANGED <<numThreads, progressFile, length, info, truncate, seg, poisons,
                   thread, counts, ptotal, recovered, sent, attempts,
                   marked, idle>>

\* main.go:296-303: the channels, the worker goroutines, the progress goroutine
go ==
    /\ Running /\ pc = "go"
    /\ thread' = [w \in Threads |->
                    IF w \in Started THEN [thread[w] EXCEPT !.pc = "receive"] ELSE thread[w]]
    /\ pc' = "instructions"
    /\ UNCHANGED <<numThreads, file, progressFile, exit, length, info, truncate,
                   seg, poisons, counts, ptotal, recovered, sent, attempts,
                   marked, idle>>


InstructionUnscaled(i, s) ==
    LET pos == s
        left == IF pos + i.SegmentSize > i.Length THEN i.Length - pos ELSE i.SegmentSize
    IN  [position |-> pos, size |-> left, segmentNum |-> s]

\* the Download of segment s (main.go:310-316)
Instruction(i, s) ==
    LET pos == s * i.SegmentSize
        left == IF pos + i.SegmentSize > i.Length THEN i.Length - pos ELSE i.SegmentSize
    IN  [position |-> pos, size |-> left, segmentNum |-> s]

PoisonValueWithSize(i) == [position |-> i.Length, size |-> 1, segmentNum |-> 0]

\* the poison value (main.go:320)
PoisonValue(i) == [position |-> i.Length, size |-> 0, segmentNum |-> 0]

\* the segments the feeding loop has still to send (main.go:305-308)
Pending(i, from) == {x \in DOMAIN i.segments : x >= from /\ ~i.segments[x]}

NextPending(i, from) == CHOOSE x \in Pending(i, from) : \A y \in Pending(i, from) : x <= y

\* the receive of main.go:49-54
Receive(t, d) ==
    IF d.size = 0
    THEN [t EXCEPT !.down = d, !.pc = "stopped"]
    ELSE [t EXCEPT !.down = d, !.finished = FALSE, !.pc = "request"]

\* main.go:305-317 with main.go:49: one rendezvous on instructions
instructStep(w) ==
    /\ Running /\ pc = "instructions"
    /\ Pending(info, seg) # {}
    /\ thread[w].pc = "receive"
    /\ LET s == NextPending(info, seg)
           d == Instruction(info, s)
       IN  /\ thread' = [thread EXCEPT ![w] = Receive(@, d)]
           /\ seg' = s + 1
           /\ sent' = Append(sent, d)
    /\ attempts' = [attempts EXCEPT ![w] = NoAttempts]
    /\ UNCHANGED <<numThreads, file, progressFile, exit, pc, length, info, truncate,
                   poisons, counts, ptotal, recovered,
                   marked>>

instruct(w) == instructStep(w) /\ UNCHANGED idle

\* main.go:319-321 with main.go:49: one rendezvous on instructions
poison(w) ==
    /\ Running /\ pc = "instructions"
    /\ Pending(info, seg) = {}
    /\ poisons < numThreads
    /\ thread[w].pc = "receive"
    /\ LET d == PoisonValue(info)
       IN  /\ thread' = [thread EXCEPT ![w] = Receive(@, d)]
           /\ sent' = Append(sent, d)
    /\ poisons' = poisons + 1
    /\ UNCHANGED <<numThreads, file, progressFile, exit, pc, length, info, truncate,
                   seg, counts, ptotal, recovered, attempts,
                   marked, idle>>

\* main.go:322: download returns, its deferred calls run (the os.Remove of
\* main.go:264 among them), main returns and the process ends
return ==
    /\ Running /\ pc = "instructions"
    /\ Pending(info, seg) = {}
    /\ poisons = numThreads
    /\ pc' = "returned"
    /\ exit' = "exit0"
    /\ progressFile' = NoProgressFile
    /\ UNCHANGED <<numThreads, file, length, info, truncate, seg, poisons,
                   thread, counts, ptotal, recovered, sent, attempts,
                   marked, idle>>

\* ------------------------------------------------------------------ workers
\* what client.Do may return: a transport error, or a response with a status
Responses ==
    {[err |-> TRUE, StatusCode |-> 0]}
    \cup {[err |-> FALSE, StatusCode |-> c] :
            c \in {StatusOK, StatusPartialContent, StatusNotFound}}

FailedOnlyPartial(resp) == resp.err \/ resp.StatusCode # StatusPartialContent

\* the test of main.go:65
Failed(resp) ==
    resp.err \/ (resp.StatusCode # StatusPartialContent /\ resp.StatusCode # StatusOK)

TooManyErrorsEarly(errorCount) == errorCount > maxErrors - 1

\* the test of main.go:67
TooManyErrors(errorCount) == errorCount > maxErrors

\* the bytes a body can still deliver after r of them were read: a 206 carries
\* the requested range, a 200 the whole resource from its first byte
BodyLeft(t) ==
    IF t.resp.StatusCode = StatusPartialContent THEN t.down.size - t.read ELSE length - t.read

\* the count of client.Do calls for the item held, kept until one is accepted
Counted(a, failed) ==
    IF a.accepted THEN a
    ELSE IF failed THEN [a EXCEPT !.n = Min(@ + 1, maxErrors + 2)]
    ELSE [n |-> 0, accepted |-> TRUE]

\* main.go:56-77: one client.Do
requestStep(w) ==
    /\ Running /\ thread[w].pc = "request"
    /\ \E resp \in Responses :
          LET t == thread[w]
          IN  /\ IF Failed(resp)
                 THEN /\ thread' = [thread EXCEPT ![w] =
                             [t EXCEPT !.errorCount = @ + 1, !.resp = resp]]
                      /\ exit' = IF TooManyErrors(t.errorCount + 1) THEN "exit1" ELSE exit
                 ELSE /\ thread' = [thread EXCEPT ![w] =
                             [t EXCEPT !.errorCount = 0, !.read = 0, !.pc = "read",
                                       !.resp = resp]]
                      /\ UNCHANGED exit
              /\ attempts' = [attempts EXCEPT ![w] = Counted(@, Failed(resp))]
    /\ UNCHANGED <<numThreads, file, progressFile, pc, length, info, truncate,
                   seg, poisons, counts, ptotal, recovered, sent,
                   marked>>

request(w) == requestStep(w) /\ UNCHANGED idle

\* main.go:79-88: one Read that delivers n > 0 bytes, the WriteAt of them (its
\* error is not looked at), and the worker then waits to send on updates
readStep(w) ==
    /\ Running /\ thread[w].pc = "read"
    /\ thread[w].read < thread[w].down.size
    /\ LET t == thread[w]
           off == t.down.position + t.read
       IN  \E n \in 1 .. Min(BufSize, BodyLeft(t)), ok \in BOOLEAN :
              /\ file' = IF ok /\ off >= 0
                         THEN [file EXCEPT !.data =
                                 WriteAt(@, [k \in 1 .. n |-> t.down.segmentNum], off)]
                         ELSE file
              /\ thread' = [thread EXCEPT ![w] =
                    [t EXCEPT !.read = @ + n, !.total = @ + n, !.pc = "send"]]
    /\ UNCHANGED <<numThreads, progressFile, exit, pc, length, info, truncate,
                   seg, poisons, counts, ptotal, recovered, sent, attempts,
                   marked>>

read(w) == readStep(w) /\ UNCHANGED idle

\* main.go:96-97
Shrink(d, r) == [d EXCEPT !.position = @ + r, !.size = @ - r]

\* main.go:80-83 and 91-98: Read returns 0 bytes and an error (the end of the
\* body, or a transport error) before down.size bytes were read
endOfBody(w) ==
    /\ Running /\ thread[w].pc = "read"
    /\ thread[w].read < thread[w].down.size
    /\ thread' = [thread EXCEPT ![w] =
          [@ EXCEPT !.down = Shrink(@, thread[w].read), !.pc = "request"]]
    /\ UNCHANGED <<numThreads, file, progressFile, exit, pc, length, info, truncate,
                   seg, poisons, counts, ptotal, recovered, sent, attempts,
                   marked, idle>>

\* main.go:91-94: the segment is read; the WriteAt of the status byte (its
\* error is not looked at)
finish(w) ==
    /\ Running /\ thread[w].pc = "read"
    /\ thread[w].read >= thread[w].down.size
    /\ \E ok \in BOOLEAN :
          IF ok
          THEN /\ progressFile' = [progressFile EXCEPT !.bitmap =
                    WriteStatus(@, finishedSegment, StatusOffset(thread[w].down.segmentNum))]
               /\ marked' = marked \cup {thread[w].down.segmentNum}
          ELSE UNCHANGED <<progressFile, marked>>
    /\ thread' = [thread EXCEPT ![w] = [@ EXCEPT !.finished = TRUE, !.pc = "receive"]]
    /\ UNCHANGED <<numThreads, file, exit, pc, length, info, truncate,
                   seg, poisons, counts, ptotal, recovered, sent, attempts, idle>>

\* -------------------------------------------------------- progress consumer
\* main.go:88 with main.go:115-122: one rendezvous on updates; a worker never
\* sends a negative count, so the consumer never leaves its loop.  With -q
\* (main.go:103-108) the loop is the same without the bookkeeping.
print_progress(w) ==
    /\ Running /\ thread[w].pc = "send"
    /\ ptotal' = ptotal + thread[w].total - counts[w]
    /\ counts' = [counts EXCEPT ![w] = thread[w].total]
    /\ thread' = [thread EXCEPT ![w].pc = "read"]
    /\ UNCHANGED <<numThreads, file, progressFile, exit, pc, length, info, truncate,
                   seg, poisons, recovered, sent, attempts,
                   marked, idle>>

Next ==
    \/ findFileLength
    \/ statFiles
    \/ setupProgressFile
    \/ openFile
    \/ go
    \/ \E w \in Threads : instruct(w)
    \/ \E w \in Threads : poison(w)
    \/ return
    \/ \E w \in Threads : request(w)
    \/ \E w \in Threads : read(w)
    \/ \E w \in Threads : endOfBody(w)
    \/ \E w \in Threads : finish(w)
    \/ \E w \in Threads : print_progress(w)

Spec == Init /\ [][Next]_vars


\* ------------------------------------------------------------- properties
\* the byte offsets of segment s of the progress state i
Range(i, s) ==
    LET d == Instruction(i, s) IN d.position .. d.position + d.size - 1

\* one past the last byte of segment s
SegmentEnd(i, s) == LET d == Instruction(i, s) IN d.position + d.size

\* the status byte of segment s in the progress file f (0 past the end of file)
StatusByte(f, s) ==
    IF f.exists /\ s + 1 \in 1 .. Len(f.bitmap) THEN f.bitmap[s + 1] ELSE 0

StatusDone(s) == StatusByte(progressFile, s) = finishedSegment

\* setupProgressFile has returned without error (the short-circuit return of
\* main.go:274 leaves poisons at 0)
SetupDone ==
    \/ pc \in {"openFile", "go", "instructions"}
    \/ pc = "returned" /\ poisons = numThreads

\* the poison loop is over: download is about to return
Returning == pc = "instructions" /\ Pending(info, seg) = {} /\ poisons = numThreads

\* a worker aborted the run (main.go:67-69)
Aborted == pc = "instructions" /\ exit = "exit1"

IsWork(d) == d.size # 0
Work == SelectSeq(sent, IsWork)
WorkNums == {Work[k].segmentNum : k \in 1 .. Len(Work)}

\* worker w holds a Download it has not finished
Holding(w) == thread[w].pc \in {"request", "read", "send"}

\* a worker wrote the byte at offset o of the output file during this run
Written(o) == o >= 0 /\ o + 1 <= Len(file.data) /\ file.data[o + 1] \notin {Old, Hole}

AcceptedStatus(resp) == ~resp.err /\ resp.StatusCode \in {StatusPartialContent, StatusOK}

\* C1: on a resumed run the supervisor sends exactly the segments recovered as
\* pending, each once, in ascending order, and none recovered as done; no byte
\* is written inside the range of a segment that was done at startup.
C1_ResumeSkipsDone ==
    (SetupDone /\ ~truncate) =>
        /\ \A k \in 1 .. Len(Work) : Work[k] = Instruction(info, Work[k].segmentNum)
        /\ \A j, k \in 1 .. Len(Work) : j < k => Work[j].segmentNum < Work[k].segmentNum
        /\ WorkNums = {x \in DOMAIN recovered : ~recovered[x] /\ x < seg}
        /\ (Pending(info, seg) = {} => WorkNums = {x \in DOMAIN recovered : ~recovered[x]})
        /\ \A s \in DOMAIN recovered :
              recovered[s] => \A o \in Range(info, s) : ~Written(o)

\* C2: a status byte is 'done' only if every byte of the segment's range was
\* written to the output file in this run, or the segment was recovered as done.
C2_DoneOnlyAfterWritten ==
    (pc = "instructions") =>
        \A s \in DOMAIN info.segments :
            StatusDone(s) => (recovered[s] \/ \A o \in Range(info, s) : Written(o))

\* C3: while every client.Do for the item a worker holds has failed, the worker
\* has made at most maxErrors + 1 = 4 of them, the 4th ends the run with
\* os.Exit(1), and the item's segment is not marked done; a run that a worker
\* aborts has a worker with 4 failures in a row.
C3_RetryBudget ==
    /\ \A w \in Threads :
          (Holding(w) /\ ~attempts[w].accepted) =>
              /\ attempts[w].n <= maxErrors + 1
              /\ attempts[w].n = thread[w].errorCount
              /\ (attempts[w].n = maxErrors + 1 => exit = "exit1")
              /\ ~StatusDone(thread[w].down.segmentNum)
              /\ thread[w].down.segmentNum \notin marked
    /\ Aborted =>
          \E w \in Started : /\ thread[w].pc = "request"
                             /\ thread[w].errorCount = maxErrors + 1

C3_Witness ==
    /\ Aborted
    /\ \E w \in Started : /\ ~attempts[w].accepted
                          /\ attempts[w].n = maxErrors + 1
                          /\ thread[w].pc = "request"

\* C4: a worker that holds an item keeps position + size at the end of the
\* item's segment through every partial completion and does not mark the
\* segment done; every item that was handed out is held by its worker or its
\* segment is marked done.
C4_PartialCompletion ==
    (pc = "instructions") =>
        /\ \A w \in Threads :
              Holding(w) =>
                  /\ thread[w].down.position + thread[w].down.size
                        = SegmentEnd(info, thread[w].down.segmentNum)
                  /\ thread[w].down.position
                        >= Instruction(info, thread[w].down.segmentNum).position
                  /\ ~StatusDone(thread[w].down.segmentNum)
        /\ \A k \in 1 .. Len(Work) :
              \/ \E w \in Threads : Holding(w) /\ thread[w].down.segmentNum = Work[k].segmentNum
              \/ StatusDone(Work[k].segmentNum)

\* C5 as stated: a worker reads the body of a response only if its status is
\* 206; a 200 counts as a failed attempt.
C5_OnlyPartialContentAccepted ==
    \A w \in Threads :
        thread[w].pc \in {"read", "send"} => thread[w].resp.StatusCode = StatusPartialContent

\* C5 as amended: a transport error and every status other than 206 and 200
\* is a failed attempt, which adds one to the retry counter and writes
\* nothing; a 206 and a 200 are accepted, reset the counter and have their
\* body read, and only the body of an accepted response is written.
C5_FailedAttempts ==
    /\ [][\A w \in Threads :
            /\ thread'[w].errorCount > thread[w].errorCount =>
                  /\ ~AcceptedStatus(thread'[w].resp)
                  /\ thread'[w].errorCount = thread[w].errorCount + 1
                  /\ thread'[w].pc = "request"
                  /\ file' = file /\ progressFile' = progressFile
            /\ (thread[w].pc = "request" /\ thread'[w].pc = "request"
                  /\ attempts'[w] # attempts[w]) =>
                  /\ ~AcceptedStatus(thread'[w].resp)
                  /\ thread'[w].errorCount = thread[w].errorCount + 1
            /\ (thread[w].pc = "request" /\ thread'[w].pc = "read") =>
                  /\ AcceptedStatus(thread'[w].resp)
                  /\ thread'[w].errorCount = 0
                  /\ file' = file
         ]_vars
    /\ [][(pc = "instructions" /\ file' # file) =>
            \E w \in Threads : /\ thread[w].pc = "read" /\ thread'[w].pc = "send"
                               /\ AcceptedStatus(thread[w].resp)
         ]_vars
    /\ [](\A w \in Threads :
            thread[w].pc \in {"read", "send"} =>
                AcceptedStatus(thread[w].resp) /\ thread[w].errorCount = 0)

C5_Witness ==
    \E w \in Threads :
        /\ thread[w].pc = "send"
        /\ thread[w].resp.StatusCode = StatusOK
        /\ thread[w].down.position > 0

\* C6: download returns (and removes the progress file) only when every started
\* worker has stopped and every segment's status byte is done.
C6_DiscardOnlyWhenAllDone ==
    Returning =>
        /\ \A w \in Started : thread[w].pc = "stopped"
        /\ \A s \in DOMAIN info.segments : StatusDone(s)

CeilDiv(a, b) == (a + b - 1) \div b

\* C8: setupProgressFile returns a clean start if and only if the output file is
\* missing, or the stored state cannot be read, or its total length differs;
\* otherwise it returns the stored segment size and bitmap with clean = false.
C8_CleanIffUnusable ==
    [][(pc = "setupProgressFile" /\ Running) =>
          LET f == progressFile
              unreadable ==
                  \/ ~f.exists \/ ~f.magic \/ ~f.decodes
                  \/ (f.SegmentSize > 0 /\ CeilDiv(f.Length, f.SegmentSize) > maxSegments)
              clean == ~file.exists \/ unreadable \/ f.Length # length
          IN  \/ exit' = "exit1"
              \/ /\ pc' = "openFile"
                 /\ truncate' = clean
                 /\ info'.Length = length
                 /\ IF clean
                    THEN /\ info'.SegmentSize = DefaultSegmentSize
                         /\ DOMAIN info'.segments = 0 .. CeilDiv(length, DefaultSegmentSize) - 1
                         /\ \A x \in DOMAIN info'.segments : ~info'.segments[x]
                    ELSE /\ info'.SegmentSize = f.SegmentSize
                         /\ \A x \in DOMAIN info'.segments :
                               info'.segments[x] <=> StatusByte(f, x) = finishedSegment
      ]_vars

\* C9: when the stored total length differs from the remote length the run
\* replaces the progress file by a fresh one and truncates the output file;
\* a resumed run opens the output file as it is; a clean run hands out every
\* segment.
C9_CleanStartOnLengthMismatch ==
    /\ [][(pc = "setupProgressFile" /\ Running /\ file.exists /\ progressFile.exists
             /\ progressFile.magic /\ progressFile.decodes /\ progressFile.Length # length) =>
            \/ exit' = "exit1"
            \/ /\ truncate'
               /\ progressFile' = beginProgressFile(length, DefaultSegmentSize)
               /\ \A x \in DOMAIN info'.segments : ~info'.segments[x]
         ]_vars
    /\ [][(pc = "openFile" /\ Running) =>
            \/ exit' = "exit1"
            \/ IF truncate THEN file'.data = <<>> ELSE file' = file
         ]_vars
    /\ [](Returning /\ truncate => WorkNums = 0 .. CeilDiv(length, DefaultSegmentSize) - 1)

\* C10: with an output file of exactly the remote length and no progress file
\* the run ends at once with exit status 0: no worker started, nothing sent,
\* nothing fetched, the output file as it was, no progress file; in every other
\* case, also with a progress file and equal sizes, the run goes on to
\* setupProgressFile.
C10_AlreadyDownloaded ==
    /\ [][(pc = "stat" /\ Running) =>
            IF file.exists /\ Len(file.data) = length /\ ~progressFile.exists
            THEN /\ pc' = "returned" /\ exit' = "exit0"
                 /\ file' = file /\ ~progressFile'.exists
                 /\ thread' = thread /\ sent' = <<>>
            ELSE /\ pc' = "setupProgressFile" /\ exit' = "running"
                 /\ progressFile' = progressFile /\ file' = file
         ]_vars
    /\ []((pc = "returned" /\ poisons = 0) =>
            /\ exit = "exit0"
            /\ \A w \in Threads : thread[w].pc = "new" /\ attempts[w] = NoAttempts
            /\ sent = <<>>
            /\ file.exists /\ Len(file.data) = length
            /\ \A k \in 1 .. Len(file.data) : file.data[k] = Old
            /\ ~progressFile.exists)

C10_Witness ==
    /\ pc = "returned" /\ poisons = 0 /\ exit = "exit0"
    /\ length > 0 /\ Len(file.data) = length

\* ---------------------------------------------- the progress store on its own
\* A second specification applies the functions of the progress store to wider
\* arguments than a run of Spec produces: setupProgressFile's clean branch and
\* readProgressInfo for any header, the status write of a worker for any
\* segment, and the feeding loop's Download values, with no worker or server.
MaxStoreLength == 5
MaxStoreSize == 3
\* a status byte that is neither 0 nor finishedSegment
OtherByte == 1

StoreBytes == {0, OtherByte, finishedSegment}
StoreBitmaps == UNION {[1 .. n -> StoreBytes] : n \in 0 .. MaxBitmap}
StoreLengths == -1 .. MaxStoreLength
StoreSizes == -1 .. MaxStoreSize

\* the files readProgressInfo may be given
StoreFiles ==
    {NoProgressFile}
    \cup {[NoProgressFile EXCEPT !.exists = TRUE]}
    \cup {[NoProgressFile EXCEPT !.exists = TRUE, !.magic = TRUE]}
    \cup {[exists |-> TRUE, magic |-> TRUE, decodes |-> TRUE,
           Length |-> l, SegmentSize |-> z, bitmap |-> b] :
              l \in StoreLengths, z \in StoreSizes, b \in StoreBitmaps}

StoreInit ==
    /\ numThreads = 1
    /\ file = NoFile
    /\ progressFile \in StoreFiles
    /\ exit = "running"
    /\ pc = "store"
    /\ length = 0
    /\ info = NoInfo
    /\ truncate = FALSE
    /\ seg = 0
    /\ poisons = 0
    /\ thread = [w \in Threads |-> NewThread]
    /\ counts = [w \in Threads |-> 0]
    /\ ptotal = 0
    /\ recovered = <<>>
    /\ sent = <<>>
    /\ marked = {}
    /\ attempts = [w \in Threads |-> NoAttempts]
    /\ idle = [w \in Threads |-> 0]

\* main.go:165-174: the clean branch of setupProgressFile for a length and a
\* segment size, file errors apart
storeCreate ==
    /\ Running /\ pc = "store"
    /\ \E len \in 0 .. MaxStoreLength, segmentSize \in 1 .. MaxStoreSize :
          /\ progressFile' = beginProgressFile(len, segmentSize)
          /\ info' = [Length |-> len, SegmentSize |-> segmentSize,
                      segments |-> [x \in 0 .. findSegmentCount(len, segmentSize) - 1 |-> FALSE]]
          /\ length' = len
    /\ recovered' = info'.segments
    /\ truncate' = TRUE
    /\ pc' = "stored"
    /\ UNCHANGED <<numThreads, file, exit, seg, poisons, thread, counts, ptotal,
                   sent, attempts, marked, idle>>

\* main.go:211-256: readProgressInfo of the file as it is
storeRead ==
    /\ Running /\ pc = "store"
    /\ LET r == readProgressInfo(progressFile)
       IN  IF r.panic # ""
           THEN /\ exit' = "panic"
                /\ UNCHANGED <<pc, info, recovered, length>>
           ELSE IF r.err # ""
           THEN /\ pc' = "failed"
                /\ UNCHANGED <<exit, info, recovered, length>>
           ELSE /\ pc' = "stored"
                /\ info' = r.info
                /\ recovered' = r.info.segments
                /\ length' = r.info.Length
                /\ UNCHANGED exit
    /\ UNCHANGED <<numThreads, file, progressFile, truncate, seg, poisons, thread,
                   counts, ptotal, sent, attempts, marked, idle>>

\* main.go:93-94: the status write of a worker for segment s, when it succeeds
storeMark(s) ==
    /\ Running /\ pc = "stored"
    /\ s \in DOMAIN info.segments
    /\ progressFile' = [progressFile EXCEPT !.bitmap =
            WriteStatus(@, finishedSegment, StatusOffset(s))]
    /\ marked' = marked \cup {s}
    /\ UNCHANGED <<numThreads, file, exit, pc, length, info, truncate, seg, poisons,
                   thread, counts, ptotal, recovered, sent, attempts, idle>>

\* main.go:305-317: one turn of the feeding loop that sends, the receiver apart
storeFeed ==
    /\ Running /\ pc = "stored"
    /\ Pending(info, seg) # {}
    /\ LET s == NextPending(info, seg)
       IN  /\ seg' = s + 1
           /\ sent' = Append(sent, Instruction(info, s))
    /\ UNCHANGED <<numThreads, file, progressFile, exit, pc, length, info, truncate,
                   poisons, thread, counts, ptotal, recovered, attempts, marked, idle>>

StoreNext ==
    \/ storeCreate
    \/ storeRead
    \/ \E s \in 0 .. MaxStoreLength : storeMark(s)
    \/ storeFeed

StoreSpec == StoreInit /\ [][StoreNext]_vars

\* C11: for Length >= 0 and SegmentSize > 0 a fully pending state has
\* ceil(Length / SegmentSize) segments, the feeding loop sends the Download of
\* each in turn, item i spans [i * SegmentSize, min((i + 1) * SegmentSize, Length)),
\* the items tile [0, Length) with no gap and no overlap, each has size > 0
\* (so none is the poison value), and Length = 0 gives no item.
C11_ItemsTile ==
    (/\ pc = "stored" /\ info.Length >= 0 /\ info.SegmentSize > 0
     /\ \A x \in DOMAIN info.segments : ~info.segments[x]) =>
        LET L == info.Length
            S == info.SegmentSize
            n == CeilDiv(L, S)
        IN  /\ DOMAIN info.segments = 0 .. n - 1
            /\ (L = 0 => n = 0)
            /\ \A i \in 0 .. n - 1 :
                  /\ Instruction(info, i) =
                        [position |-> i * S, size |-> Min((i + 1) * S, L) - i * S,
                         segmentNum |-> i]
                  /\ Instruction(info, i).size > 0
                  /\ Instruction(info, i) # PoisonValue(info)
                  /\ Range(info, i) \subseteq 0 .. L - 1
            /\ \A o \in 0 .. L - 1 :
                  Cardinality({i \in 0 .. n - 1 : o \in Range(info, i)}) = 1
            /\ Len(sent) = seg /\ seg <= n
            /\ \A k \in 1 .. Len(sent) : sent[k] = Instruction(info, k - 1)
            /\ (Pending(info, seg) = {} => Len(sent) = n)

C11_Witness ==
    /\ pc = "stored" /\ truncate
    /\ Pending(info, seg) = {}
    /\ Len(sent) >= 3
    /\ sent[Len(sent)].size < info.SegmentSize

\* C12 as stated: whatever the length and the segment size, readProgressInfo of
\* a file that beginProgressFile made and workers marked returns no error, the
\* same header, and a bitmap of ceil(Length / SegmentSize) entries that is true
\* exactly on the marked segments.
C12_RoundTrip ==
    (pc = "stored" /\ truncate) =>
        LET r == readProgressInfo(progressFile)
        IN  /\ r.err = "" /\ r.panic = ""
            /\ r.info.Length = info.Length /\ r.info.SegmentSize = info.SegmentSize
            /\ DOMAIN r.info.segments = 0 .. CeilDiv(info.Length, info.SegmentSize) - 1
            /\ \A s \in DOMAIN r.info.segments : r.info.segments[s] <=> s \in marked

\* C12 as amended: the round trip holds while ceil(Length / SegmentSize) is at
\* most maxSegments, and beyond that readProgressInfo returns the error "too
\* many segments"; in every file it reads, a status byte equal to
\* finishedSegment reads as done, any other byte as pending, and a byte at or
\* past the end of the file as pending with no error.
C12_RoundTripWithinCap ==
    /\ (pc = "stored" /\ truncate) =>
          LET r == readProgressInfo(progressFile)
              n == CeilDiv(info.Length, info.SegmentSize)
          IN  IF n <= maxSegments
              THEN /\ r.err = "" /\ r.panic = ""
                   /\ r.info.Length = info.Length /\ r.info.SegmentSize = info.SegmentSize
                   /\ DOMAIN r.info.segments = 0 .. n - 1
                   /\ \A s \in DOMAIN r.info.segments : r.info.segments[s] <=> s \in marked
              ELSE r.err = "too many segments" /\ r.panic = ""
    /\ (pc = "stored" /\ ~truncate) =>
          LET r == readProgressInfo(progressFile)
          IN  /\ r.err = "" /\ r.panic = ""
              /\ r.info.Length = info.Length /\ r.info.SegmentSize = info.SegmentSize
              /\ DOMAIN r.info.segments = DOMAIN info.segments
              /\ \A s \in DOMAIN r.info.segments :
                    /\ r.info.segments[s] <=> StatusByte(progressFile, s) = finishedSegment
                    /\ r.info.segments[s] <=> (recovered[s] \/ s \in marked)

C12_Witness ==
    /\ pc = "stored" /\ truncate
    /\ lenOf(info.segments) = maxSegments
    /\ \E s, t \in DOMAIN info.segments :
          /\ s < t /\ s \notin marked /\ t \in marked
          /\ \E u \in DOMAIN info.segments : u >= Len(progressFile.bitmap)

\* C13: a WriteAt that fails, of a chunk on the output file or of a status byte
\* on the progress file, ends the run with a failure, and a segment is marked
\* done only if every chunk write for it succeeded.
C13_WriteErrorsFatal ==
    [][\A w \in Threads :
          /\ (thread[w].pc = "read" /\ thread'[w].pc = "send" /\ file' = file) =>
                exit' = "exit1"
          /\ (thread[w].pc = "read" /\ thread'[w].pc = "receive"
                /\ progressFile' = progressFile) =>
                exit' = "exit1"
          /\ (thread[w].pc = "read" /\ thread'[w].pc = "receive"
                /\ progressFile' # progressFile) =>
                \A o \in Range(info, thread[w].down.segmentNum) : Written(o)
      ]_vars

\* the status bytes of a fresh progress file after the segments of D were marked
MarkedBitmap(D) ==
    LET top == IF D = {} THEN 0 ELSE 1 + CHOOSE x \in D : \A y \in D : y <= x
    IN  [k \in 1 .. top |-> IF k - 1 \in D THEN finishedSegment ELSE 0]

\* C14: a mark changes only the status byte at offset baseOffset + i, which
\* becomes finishedSegment; marking a marked segment again changes nothing; and
\* the status bytes after any sequence of marks depend only on the set of
\* segments marked, not on the order of the marks.
C14_MarksCommute ==
    /\ [][\A s \in DOMAIN info.segments :
            (pc = "stored" /\ marked' = marked \cup {s} /\ s \notin marked) =>
                /\ StatusByte(progressFile', s) = finishedSegment
                /\ \A k \in 0 .. MaxStoreLength + MaxBitmap :
                      k # s => StatusByte(progressFile', k) = StatusByte(progressFile, k)
                /\ progressFile'.Length = progressFile.Length
                /\ progressFile'.SegmentSize = progressFile.SegmentSize
                /\ progressFile'.magic /\ progressFile'.decodes
         ]_vars
    /\ [](pc = "stored" =>
            /\ \A s \in marked :
                  WriteStatus(progressFile.bitmap, finishedSegment, StatusOffset(s))
                      = progressFile.bitmap
            /\ truncate => progressFile.bitmap = MarkedBitmap(marked)
            /\ \A s \in DOMAIN info.segments :
                  StatusByte(progressFile, s) = finishedSegment
                      <=> (s \in marked \/ recovered[s]))

C14_Witness ==
    /\ pc = "stored" /\ truncate
    /\ \E s, t \in marked : t > s + 1 /\ s + 1 \notin marked

Stopped == {w \in Threads : thread[w].pc = "stopped"}

\* C15: the supervisor sends numThreads poison values, all after the last
\* Download of a segment; a worker stops only by receiving one, receives at
\* most one, and only when it holds no unfinished segment; once a worker has
\* stopped by poison every pending segment has been sent and received.
C15_PoisonProtocol ==
    /\ [](pc \in {"instructions", "returned"} =>
            /\ Len(sent) - Len(Work) = poisons
            /\ poisons <= numThreads
            /\ (Returning \/ (pc = "returned" /\ sent # <<>>) => poisons = numThreads)
            /\ \A j, k \in 1 .. Len(sent) :
                  (j < k /\ ~IsWork(sent[j])) => sent[k] = PoisonValue(info)
            /\ Cardinality(Stopped) = poisons
            /\ Stopped \subseteq Started
            /\ \A w \in Stopped : thread[w].finished /\ thread[w].down = PoisonValue(info)
            /\ (Stopped # {} =>
                  /\ Pending(info, seg) = {}
                  /\ WorkNums = {x \in DOMAIN recovered : ~recovered[x]}))
    /\ [][\A w \in Threads :
            (thread'[w].pc = "stopped" /\ thread[w].pc # "stopped") =>
                /\ thread[w].pc = "receive" /\ thread[w].finished
                /\ poisons' = poisons + 1
                /\ sent' = Append(sent, PoisonValue(info))
         ]_vars

C15_Witness ==
    /\ Returning
    /\ numThreads = MaxThreads
    /\ Len(Work) >= 2
    /\ \E w \in Started : thread[w].total > 0

Holders == {w \in Threads : Holding(w)}

\* the bytes of the range worker w has in flight
InFlight(w) == thread[w].down.position .. thread[w].down.position + thread[w].down.size - 1

\* C16: every Download of a segment that was sent is received by one worker;
\* a worker holds at most one, so at most numThreads are in flight and the
\* supervisor has sent at most (completed + numThreads); two segments in
\* flight at the same time have different indices and disjoint byte ranges.
C16_OneWorkerPerItem ==
    /\ [](pc = "instructions" =>
            /\ \A j, k \in 1 .. Len(Work) : j # k => Work[j].segmentNum # Work[k].segmentNum
            /\ Holders \subseteq Started
            /\ Cardinality(Holders) <= numThreads
            /\ \A w \in Holders : thread[w].down.segmentNum \in WorkNums
            /\ \A w, v \in Holders :
                  w # v => /\ thread[w].down.segmentNum # thread[v].down.segmentNum
                           /\ InFlight(w) \cap InFlight(v) = {}
            /\ LET completed == {x \in WorkNums :
                                    \A w \in Holders : thread[w].down.segmentNum # x}
               IN  Len(Work) <= Cardinality(completed) + numThreads)
    /\ [][(pc = "instructions" /\ Len(Work') = Len(Work) + 1) =>
            \E w \in Started :
                /\ thread[w].pc = "receive" /\ thread[w].finished
                /\ Holding(w)' /\ thread'[w].down = sent'[Len(sent')]
                /\ \A v \in Threads : v # w => thread'[v] = thread[v]
         ]_vars

C16_Witness ==
    /\ pc = "instructions"
    /\ Cardinality(Holders) = MaxThreads
    /\ \A w \in Holders : thread[w].pc = "send" /\ thread[w].read > 0

\* the offsets whose byte a step of worker w has written
WrittenBy(w) ==
    {o \in 0 .. Len(file'.data) - 1 :
        /\ file'.data[o + 1] = thread[w].down.segmentNum
        /\ (o < Len(file.data) => file.data[o + 1] # file'.data[o + 1])}

\* C17: every byte a worker writes to the output file lies in the range
\* [position, position + size) of the Download it holds, whatever the body of
\* the accepted response carries; so none lies in the range another worker
\* has in flight or in the range of a segment marked done.
C17_WritesInsideSegment ==
    [][\A w \in Threads :
          (thread[w].pc = "read" /\ thread'[w].pc = "send") =>
              \A o \in WrittenBy(w) :
                  /\ o \in InFlight(w)
                  /\ o \in Range(info, thread[w].down.segmentNum)
                  /\ \A v \in Holders : v # w => o \notin InFlight(v)
                  /\ \A x \in DOMAIN info.segments :
                        (StatusDone(x) /\ x # thread[w].down.segmentNum) =>
                            o \notin Range(info, x)
      ]_vars

\* ------------------------------------------------- first runs, with retries counted
\* A third specification follows the runs that find no progress file and keeps
\* the history variable idle; FairSpec adds the scheduling of the Go runtime:
\* a goroutine that can take a step takes one.
RetryInit == Init /\ ~progressFile.exists

Idled(n) == Min(n + 1, maxErrors + 2)

instructCounted(w) == instructStep(w) /\ idle' = [idle EXCEPT ![w] = 0]

requestCounted(w) == requestStep(w) /\ idle' = [idle EXCEPT ![w] = Idled(@)]

readCounted(w) == readStep(w) /\ idle' = [idle EXCEPT ![w] = 0]

Supervisor ==
    \/ findFileLength
    \/ statFiles
    \/ setupProgressFile
    \/ openFile
    \/ go
    \/ \E w \in Threads : instructCounted(w)
    \/ \E w \in Threads : poison(w)
    \/ return

Worker(w) ==
    \/ requestCounted(w)
    \/ readCounted(w)
    \/ endOfBody(w)
    \/ finish(w)

RetryNext ==
    \/ Supervisor
    \/ \E w \in Threads : Worker(w)
    \/ \E w \in Threads : print_progress(w)

RetrySpec == RetryInit /\ [][RetryNext]_vars

FairSpec ==
    /\ RetrySpec
    /\ WF_vars(Supervisor)
    /\ \A w \in Threads : WF_vars(Worker(w)) /\ WF_vars(print_progress(w))

\* C19: for the item a worker holds, the client.Do calls in a row that bring no
\* new byte (failed, or accepted with a body that ends at once) are at most
\* maxErrors + 1 = 4, and the run ends with os.Exit(1) when the 4th has brought
\* none.
C19_NoProgressBounded ==
    \A w \in Threads :
        Holding(w) =>
            /\ idle[w] <= maxErrors + 1
            /\ (idle[w] = maxErrors + 1 /\ thread[w].pc = "request") => exit = "exit1"

\* C18: once the workers run, the run ends, either with the work exhausted,
\* every worker stopped and the progress file removed, or with os.Exit(1) by
\* a worker that has seen maxErrors + 1 failures in a row.  (That exhausted
\* work is marked done is C2's and C13's subject and is left out here.)
C18_Terminates ==
    (pc = "instructions") ~>
        \/ /\ pc = "returned" /\ exit = "exit0"
           /\ \A w \in Started : thread[w].pc = "stopped"
           /\ Pending(info, seg) = {}
           /\ ~progressFile.exists
        \/ /\ Aborted
           /\ \E w \in Started : thread[w].errorCount = maxErrors + 1

\* C20: readProgressInfo of a file whose header decodes, whatever Length and
\* SegmentSize it stores, returns an error or a bitmap; it does not panic.
C20_RecoveryNeverPanics ==
    /\ exit # "panic"
    /\ (pc = "stored" /\ ~truncate) => lenOf(info.segments) >= 0

=============================================================================
